---- MODULE Spec2Model ----
(***************************************************************************)
(* Fee-escalation (RBF) controllers of the repository:                     *)
(*   - BitcoinRBFEngine  (src/advanced_rbf_monitor.py), specification Spec *)
(*   - BitcoinRBFSystem  (src/rbf_main.py), specification SpecSys          *)
(*                                                                         *)
(* Units.  The code holds fee rates as floats in sat/vB and amounts and    *)
(* fees as floats in BTC.  Here a fee rate is a record [n, u]: n is the    *)
(* rate in tenths of sat/vB and u is the signed number of units in the     *)
(* last place by which the IEEE-754 double the code computes differs from  *)
(* the double nearest to n/10.  Amounts and fees are integers in tenths of *)
(* a satoshi (fee = size * n).                                             *)
(***************************************************************************)
EXTENDS Integers, Sequences, FiniteSets, TLC

VARIABLES
    \* BitcoinRBFEngine (advanced_rbf_monitor.py)
    running,          \* self.running
    rbf_attempts,     \* self.rbf_attempts
    original_tx,      \* self.original_tx
    rbf_tx,           \* self.rbf_tx
    target_fee_rate,  \* self.target_fee_rate (sat/vB)
    fee_cache,        \* fastestFee of MempoolMonitor.fee_cache, 0 when empty
    thr,              \* the monitor threads created so far
    last,             \* what the latest monitor step observed and logged
    polled_txid,      \* the id the latest status query asked about
    \* BitcoinRBFSystem (rbf_main.py)
    s_running,         \* self.running
    s_original_tx,     \* self.original_tx
    s_rbf_tx,          \* self.rbf_tx
    s_target_fee_rate, \* self.target_fee_rate (sat/vB)
    s_thr,             \* the monitor threads created so far
    s_polled,          \* the answer to the latest status query ("": none made)
    s_tx_status,       \* tx_status.get("status") of the latest status query
    s_fee_cache,       \* fastestFee of MempoolMonitor.fee_cache, 0 when empty
    s_fees,            \* fastestFee the latest fee query returned, 0 before any
    s_sequence,        \* input sequence of the raw transaction the system built last
                       \* (<<high half, low half>>), <<>> before any
    \* callers of BitcoinRBFEngine
    cli_status,        \* <<the dictionary the latest get_status returned>>
    stop_seen,         \* the monitor threads alive at a stop_rbf_operation call
    \* BitcoinRBFSender (practical_rbf.py)
    sender_call,       \* the arguments of the latest create_rbf_transaction call
    sender_outcome,    \* what that call raised or returned
    \* RBFSender and the module-level functions (rbf_transaction.py, advanced_rbf.py)
    raw_call,          \* the latest create_raw_transaction call: which one, and
                       \* amount_btc and fee_btc in units of 0.1 satoshi
    raw_outcome,       \* what that call raised, or the value of the output built
    \* the outpoints of BitcoinRBFEngine
    utxo,              \* self.utxo
    original_outpoint  \* the outpoint the original transaction spends

engine_vars == <<running, rbf_attempts, original_tx, rbf_tx, target_fee_rate,
                 fee_cache, thr, last, polled_txid>>

system_vars == <<s_running, s_original_tx, s_rbf_tx, s_target_fee_rate, s_thr,
                 s_polled, s_tx_status, s_fee_cache, s_fees, s_sequence>>

observer_vars == <<cli_status, stop_seen>>

sender_vars == <<sender_call, sender_outcome, raw_call, raw_outcome>>

utxo_vars == <<utxo, original_outpoint>>

vars == <<engine_vars, system_vars, observer_vars, sender_vars, utxo_vars>>

\* number of calls of start_rbf_operation that start a monitor thread
MaxStarts == 2

-----------------------------------------------------------------------------
(* Configuration: BitcoinRBFEngine._load_config defaults *)

max_rbf_attempts == 5
default_initial_fee_rate == 5
default_target_fee_rate == 20
max_fee_rate == 100
fee_buffer_percentage == 10

-----------------------------------------------------------------------------
(* Inputs *)

\* (amount in satoshi, initial_fee_rate, target_fee_rate) arguments of
\* start_rbf_operation; rates in sat/vB, 0 for a rate that is not supplied (None)
StartInputs == {<<5000, 1, 0>>, <<3000, 0, 0>>, <<5000, 11, 10>>}
\* fastestFee values the fee oracle may report, sat/vB
FastestFees == {30}

\* The first entry of the list get_utxos returns (its txid and vout), or
\* NoUtxo when the list is empty; self.utxo is None (NoUtxo) before any start
NoUtxo == "no_utxo"
Utxos == {"utxo_a", "utxo_b"}

Threads == 1..MaxStarts

-----------------------------------------------------------------------------
(* TransactionInfo and TransactionStatus *)

PENDING == "pending"
BROADCASTED == "broadcasted"
CONFIRMED == "confirmed"
CANCELLED == "cancelled"
FAILED == "failed"

\* Python None for the fields original_tx / rbf_tx
None == [txid |-> <<>>, address |-> "", amount |-> 0, fee |-> 0, status |-> "None"]

TransactionInfo(txid, address, amount, fee, status) ==
    [txid |-> txid, address |-> address, amount |-> amount, fee |-> fee,
     status |-> status]

-----------------------------------------------------------------------------
(* Arithmetic of the engine *)

calculate_transaction_size(inputs, outputs) == inputs * 180 + outputs * 34 + 10

\* fee (tenths of satoshi) of a transaction of tx_size bytes at rate r
calculate_fee_from_rate(tx_size, r) == tx_size * r.n

\* (fee * 100000000) / size evaluated in doubles: the residue, in units in the
\* last place, of ((224 * r / 1e8) * 1e8) / 224 against r, for the whole rates
\* r = n / 10 from 1 to 110 sat/vB
RoundTripUlps(n) ==
    CASE n \in {10, 20, 40, 80, 160, 320, 550, 640, 690, 1100} -> 1
      [] n \in {150, 300, 350, 600, 650, 700} -> -1
      [] OTHER -> 0

\* original_fee_rate = (self.original_tx.fee * 100000000) / size
original_fee_rate(fee) ==
    LET n == fee \div calculate_transaction_size(1, 1)
    IN [n |-> n, u |-> RoundTripUlps(n)]

\* target_rate * (1 + fee_buffer / 100) evaluated in doubles: residue of
\* t * 1.1 against the double nearest to the exact product, for the whole
\* rates t from 1 to 110 sat/vB
BufferUlps(t) ==
    IF t \in {3, 6, 7, 11, 12, 14, 17, 19, 22, 24, 25, 27, 28, 29, 33, 34, 38,
              39, 43, 44, 45, 48, 49, 50, 53, 54, 55, 56, 58, 61, 63, 66, 68,
              71, 73, 76, 78, 81, 83, 85, 86, 88, 90, 91, 93, 95, 96, 98, 100,
              101, 103, 105, 106, 108, 110}
    THEN 1 ELSE 0

\* a rate given as a whole number of sat/vB
WholeRate(t) == [n |-> 10 * t, u |-> 0]

RateGT(a, b) == a.n > b.n \/ (a.n = b.n /\ a.u > b.u)

RateMin(a, b) == IF RateGT(a, b) THEN b ELSE a

\* target_rate_with_buffer of _monitor_loop, from target_rate t (sat/vB)
target_rate_with_buffer(t) ==
    LET buffered == [n |-> (10 * t * (100 + fee_buffer_percentage)) \div 100,
                     u |-> BufferUlps(t)]
    IN RateMin(buffered, WholeRate(max_fee_rate))

\* An `or` that prefers its second operand: the fee estimate wins over the
\* stored target.
Or_second_first(a, b) == IF b # 0 THEN b ELSE a

\* Python's `a or b` on numbers: a unless a is None or 0
Or(a, b) == IF a # 0 THEN a ELSE b

-----------------------------------------------------------------------------
(* The oracle (mempool.space API) and MempoolMonitor *)

\* GET /tx/{id}: 200 with status.confirmed, 404, another status code, or an
\* exception (timeout, connection error)
StatusResponses == {"200_confirmed", "200_unconfirmed", "404", "500", "exception"}

\* the value of tx_status.get("status") for each response, as
\* MempoolMonitor.get_transaction_status returns it: on 200 the transaction's
\* JSON, whose "status" member is an object
get_transaction_status(resp) ==
    CASE resp = "200_confirmed" -> "{confirmed: true}"
      [] resp = "200_unconfirmed" -> "{confirmed: false}"
      [] resp = "404" -> "not_found"
      [] OTHER -> "error"

\* GET /v1/fees/recommended: 200 with fastestFee f, or a failure (0)
FeeResponses == FastestFees \cup {0}

\* fastestFee of the dictionary get_recommended_fees returns; cache is the
\* fastestFee of self.fee_cache, 0 when the cache is empty
get_recommended_fees(resp, cache) ==
    IF resp # 0 THEN resp
    ELSE IF cache # 0 THEN cache ELSE default_target_fee_rate

fee_cache_after(resp, cache) == IF resp # 0 THEN resp ELSE cache

-----------------------------------------------------------------------------
(* Monitor threads *)

\* pc: "idle" (not created), "wait" (at the loop head: asleep, or about to
\* test self.running), "broadcast" (sendrawtransaction of a replacement in
\* flight), "done" (loop left).  send_amount, target_fee: locals of
\* _create_rbf_transaction.
IdleThread == [pc |-> "idle", send_amount |-> 0, target_fee |-> 0]

\* what the latest monitor step observed: the value of tx_status.get("status")
\* its status query returned ("" when it made none) and the outcome it logged
Observed(tx_status, res) == [tx_status |-> tx_status, res |-> res]

\* a monitor thread of BitcoinRBFSystem: pc is "idle" (not created), "wait"
\* (at the loop head), "polled" (the status query answered, not confirmed; the
\* fee query is next), "done" (loop left); check_count is the loop's local
SysIdleThread == [pc |-> "idle", check_count |-> 0]

Init ==
    /\ running = FALSE
    /\ rbf_attempts = 0
    /\ original_tx = None
    /\ rbf_tx = None
    /\ target_fee_rate = 0
    /\ fee_cache = 0
    /\ polled_txid = <<>>
    /\ thr = [t \in Threads |-> IdleThread]
    /\ last = Observed("", "")
    /\ s_running = FALSE
    /\ s_original_tx = None
    /\ s_rbf_tx = None
    /\ s_target_fee_rate = 0
    /\ s_thr = [t \in Threads |-> SysIdleThread]
    /\ s_polled = ""
    /\ s_tx_status = ""
    /\ s_fee_cache = 0
    /\ s_fees = 0
    /\ s_sequence = <<>>
    /\ cli_status = <<>>
    /\ stop_seen = {}
    /\ sender_call = [original_amount |-> 0, original_fee |-> 0, new_fee |-> 0]
    /\ sender_outcome = [res |-> "", txid |-> <<>>]
    /\ raw_call = [fn |-> "", amount_btc |-> 0, fee_btc |-> 0]
    /\ raw_outcome = [res |-> "", nValue |-> 0]
    /\ utxo = NoUtxo
    /\ original_outpoint = NoUtxo

\* ledger id of a broadcast transaction: determined by its content
TxId(address, amount, fee) == <<address, amount, fee>>

SignResults == {"complete", "incomplete", "exception"}
BroadcastResults == {"txid", "none", "exception"}

\* How creating, signing and broadcasting the original transaction ends in
\* start_rbf_operation: "txid" (broadcast, the ledger's id returned), "none"
\* (the sendrawtransaction response carries no result), "raised" (the signature
\* is not complete, or an RPC call failed: the exception leaves the method)
StartResults == {"txid", "none", "raised"}

\* start_rbf_operation(wallet_address, cancellation_address, amount,
\* initial_fee_rate, target_fee_rate)
start_rbf_operation_body(args, result) ==
    LET t == CHOOSE u \in Threads :
                 thr[u].pc = "idle" /\ \A v \in 1..(u - 1) : thr[v].pc # "idle"
        amount == 10 * args[1]
        initial_fee_rate == Or(args[2], default_initial_fee_rate)
        tx_size == calculate_transaction_size(1, 1)
        initial_fee == calculate_fee_from_rate(tx_size, WholeRate(initial_fee_rate))
        txid == IF result = "txid"
                THEN TxId("some_recipient_address", amount, initial_fee)
                ELSE <<>>
    IN /\ \E u \in Threads : thr[u].pc = "idle"
       /\ target_fee_rate' = Or(args[3], default_target_fee_rate)
       /\ IF result # "raised"
          THEN /\ original_tx' = TransactionInfo(txid, "wallet", amount,
                                                 initial_fee, BROADCASTED)
               /\ running' = TRUE
               /\ rbf_attempts' = 0
               /\ thr' = [thr EXCEPT ![t].pc = "wait"]
               /\ last' = Observed("", "")
               /\ polled_txid' = <<>>
          ELSE UNCHANGED <<original_tx, running, rbf_attempts, thr, last,
                           polled_txid>>
       /\ UNCHANGED <<rbf_tx, fee_cache, system_vars, observer_vars, sender_vars>>

start_rbf_operation ==
    /\ \E args \in StartInputs, result \in StartResults :
           start_rbf_operation_body(args, result)
    /\ UNCHANGED utxo_vars

\* create_refusal without the two funds checks
create_refusal_no_funds_check(attempts, target_fee, tx) ==
    IF attempts >= max_rbf_attempts THEN "max_attempts" ELSE ""

\* create_refusal with the funds checks made only for an original that has a
\* ledger id
create_refusal_by_txid(attempts, target_fee, tx) ==
    IF attempts >= max_rbf_attempts THEN "max_attempts"
    ELSE IF tx.txid = <<>> THEN ""
    ELSE IF target_fee >= tx.amount THEN "fee_too_high"
    ELSE IF tx.amount - (target_fee - tx.fee) <= 0 THEN "insufficient_funds"
    ELSE ""

\* the first refusal of _create_rbf_transaction that applies, "" when none does
create_refusal(attempts, target_fee, tx) ==
    IF attempts >= max_rbf_attempts THEN "max_attempts"
    ELSE IF target_fee >= tx.amount THEN "fee_too_high"
    ELSE IF tx.amount - (target_fee - tx.fee) <= 0 THEN "insufficient_funds"
    ELSE ""

\* _create_rbf_transaction(rate) up to the broadcast request: attempt limit,
\* funds checks, createrawtransaction and signrawtransactionwithwallet.
\* What it logs: a refusal, "sign_failed", "exception", or "to_broadcast".
create_outcome(rate, attempts, tx, sign) ==
    LET target_fee == calculate_fee_from_rate(calculate_transaction_size(1, 1), rate)
        refusal == create_refusal(attempts, target_fee, tx)
    IN IF refusal # "" THEN refusal
       ELSE IF sign = "complete" THEN "to_broadcast"
       ELSE IF sign = "incomplete" THEN "sign_failed"
       ELSE "exception"

\* _monitor_loop: one pass of the loop body up to the sleep, or up to the
\* broadcast request of _create_rbf_transaction: the test of self.running, the
\* status query of self.original_tx.txid and the confirmed test, the fee
\* query, target rate, buffer, cap, the comparison with the original fee rate,
\* and _create_rbf_transaction up to sendrawtransaction
monitor_cycle(t) ==
    /\ thr[t].pc = "wait"
    /\ IF ~running
       THEN /\ thr' = [thr EXCEPT ![t].pc = "done"]
            /\ last' = Observed("", "stopped")
            /\ UNCHANGED <<running, original_tx, fee_cache, polled_txid>>
       ELSE \E sresp \in StatusResponses, fresp \in FeeResponses, sign \in SignResults :
            LET tx_status == get_transaction_status(sresp)
                current_fastest_fee == get_recommended_fees(fresp, fee_cache)
                target_rate == Or(target_fee_rate, current_fastest_fee)
                with_buffer == target_rate_with_buffer(target_rate)
                target_fee == calculate_fee_from_rate(
                                  calculate_transaction_size(1, 1), with_buffer)
                replace == RateGT(with_buffer, original_fee_rate(original_tx.fee))
                res == create_outcome(with_buffer, rbf_attempts, original_tx, sign)
                signer_called ==
                    /\ tx_status # "confirmed"
                    /\ replace
                    /\ create_refusal(rbf_attempts, target_fee, original_tx) = ""
            IN /\ sign # "complete" => signer_called
               /\ polled_txid' = original_tx.txid
               /\ IF tx_status = "confirmed"
                  THEN /\ original_tx' = [original_tx EXCEPT !.status = CONFIRMED]
                       /\ running' = FALSE
                       /\ thr' = [thr EXCEPT ![t].pc = "done"]
                       /\ last' = Observed(tx_status, "confirmed")
                       /\ UNCHANGED fee_cache
                  ELSE /\ fee_cache' = fee_cache_after(fresp, fee_cache)
                       /\ UNCHANGED <<original_tx, running>>
                       /\ IF ~replace
                          THEN /\ thr' = thr
                               /\ last' = Observed(tx_status, "no_replace")
                          ELSE /\ last' = Observed(tx_status, res)
                               /\ thr' = IF res = "to_broadcast"
                                         THEN [thr EXCEPT ![t] =
                                               [pc |-> "broadcast",
                                                send_amount |-> original_tx.amount
                                                    - (target_fee - original_tx.fee),
                                                target_fee |-> target_fee]]
                                         ELSE thr
    /\ UNCHANGED <<rbf_attempts, rbf_tx, target_fee_rate, system_vars, observer_vars, sender_vars, utxo_vars>>

\* _create_rbf_transaction from the answer to sendrawtransaction: the store of
\* self.rbf_tx and self.rbf_attempts += 1; then the sleep of the loop
broadcast_rbf_transaction(t) ==
    /\ thr[t].pc = "broadcast"
    /\ \E bcast \in BroadcastResults :
        LET rbf_txid == IF bcast = "txid"
                        THEN TxId("cancel", thr[t].send_amount, thr[t].target_fee)
                        ELSE <<>>
        IN IF bcast = "exception"
           THEN /\ last' = Observed("", "exception")
                /\ UNCHANGED <<rbf_tx, rbf_attempts>>
           ELSE /\ rbf_tx' = TransactionInfo(rbf_txid, "cancel", thr[t].send_amount,
                                             thr[t].target_fee, BROADCASTED)
                /\ rbf_attempts' = rbf_attempts + 1
                /\ last' = Observed("", IF bcast = "txid" THEN "broadcast"
                                       ELSE "broadcast_no_id")
    /\ thr' = [thr EXCEPT ![t] = [IdleThread EXCEPT !.pc = "wait"]]
    /\ UNCHANGED <<running, original_tx, target_fee_rate, fee_cache, polled_txid,
                   system_vars, observer_vars, sender_vars, utxo_vars>>

\* stop_rbf_operation: clears the flag; the join (timeout 5 s) changes nothing.
\* Called with the flag already clear it changes no state.
stop_rbf_operation ==
    /\ running
    /\ running' = FALSE
    /\ UNCHANGED <<rbf_attempts, original_tx, rbf_tx, target_fee_rate,
                   fee_cache, thr, last, polled_txid, system_vars, observer_vars, sender_vars, utxo_vars>>

Next ==
    \/ start_rbf_operation
    \/ stop_rbf_operation
    \/ \E t \in Threads : monitor_cycle(t)
    \/ \E t \in Threads : broadcast_rbf_transaction(t)

Spec == Init /\ [][Next]_vars

-----------------------------------------------------------------------------
(* BitcoinRBFSystem (rbf_main.py) *)

\* max_checks of BitcoinRBFSystem._monitor_loop: 100 in the source, scaled
max_checks == 3

\* fastestFee of MempoolMonitor._get_default_fees, and the default of
\* fees.get("fastestFee", 20)
sys_default_fastest_fee == 20

\* The sequence field BitcoinRBFSystem.create_raw_transaction writes for every
\* input ("ffffffff"), as its high and low 16-bit halves
sys_input_sequence == <<65535, 65535>>

\* (amount in satoshi, initial_fee_rate, target_fee_rate) as get_user_inputs
\* accepts them: amount > 0, both rates positive integers
SysInputs == {<<5000, 1, 20>>, <<3000, 5, 20>>, <<5000, 20, 20>>, <<5000, 15, 15>>,
              <<50000, 1, 150>>}

\* MempoolMonitor.get_transaction_status of rbf_main.py: the "status" member
\* of the dictionary it returns
\* A monitor that reads a missing transaction as settled.
sys_get_transaction_status_missing_is_settled(resp) ==
    CASE resp = "200_confirmed" -> "confirmed"
      [] resp = "200_unconfirmed" -> "mempool"
      [] resp = "404" -> "confirmed"
      [] resp = "500" -> "error"
      [] OTHER -> "not_found"

sys_get_transaction_status(resp) ==
    CASE resp = "200_confirmed" -> "confirmed"
      [] resp = "200_unconfirmed" -> "mempool"
      [] resp = "404" -> "not_found"
      [] resp = "500" -> "error"
      [] OTHER -> "not_found"

\* fastestFee of MempoolMonitor.get_recommended_fees of rbf_main.py
sys_get_recommended_fees(resp) ==
    IF resp # 0 THEN resp ELSE sys_default_fastest_fee

\* mempool_monitor.broadcast_transaction: success with the ledger's id, or not
SysBroadcastResults == {"success", "failure"}

\* the end of _monitor_loop, after the loop is left with the flag at value r
after_loop(check_count, r) == IF check_count >= max_checks /\ r THEN FALSE ELSE r

\* get_user_inputs followed by start_rbf_operation: the original transaction
\* is created, signed and broadcast; a failed broadcast raises
sys_start_rbf_operation ==
    /\ \E t \in Threads : s_thr[t].pc = "idle"
    /\ \E args \in SysInputs, result \in {"txid", "raised"} :
        LET t == CHOOSE u \in Threads :
                     s_thr[u].pc = "idle" /\ \A v \in 1..(u - 1) : s_thr[v].pc # "idle"
            amount == 10 * args[1]
            tx_size == calculate_transaction_size(1, 1)
            initial_fee == calculate_fee_from_rate(tx_size, WholeRate(args[2]))
        IN /\ s_target_fee_rate' = args[3]
           /\ s_sequence' = sys_input_sequence
           /\ IF result = "txid"
              THEN /\ s_original_tx' = TransactionInfo(
                           TxId("wrong_recipient", amount, initial_fee),
                           "wallet", amount, initial_fee, BROADCASTED)
                   /\ s_running' = TRUE
                   /\ s_thr' = [s_thr EXCEPT ![t].pc = "wait"]
              ELSE UNCHANGED <<s_original_tx, s_running, s_thr>>
    /\ UNCHANGED <<s_rbf_tx, s_polled, s_tx_status, s_fee_cache, s_fees,
                   engine_vars,
                   observer_vars, sender_vars, utxo_vars>>

\* _monitor_loop: the loop test, check_count += 1, the status query of
\* self.original_tx.txid and the confirmed test
sys_poll(t) ==
    /\ s_thr[t].pc = "wait"
    /\ IF ~(s_running /\ s_thr[t].check_count < max_checks)
       THEN /\ s_running' = after_loop(s_thr[t].check_count, s_running)
            /\ s_thr' = [s_thr EXCEPT ![t].pc = "done"]
            /\ s_polled' = ""
            /\ s_tx_status' = ""
            /\ UNCHANGED s_original_tx
       ELSE \E sresp \in StatusResponses :
            LET check_count == s_thr[t].check_count + 1
            IN /\ s_polled' = sresp
               /\ s_tx_status' = sys_get_transaction_status(sresp)
               /\ IF sys_get_transaction_status(sresp) = "confirmed"
                  THEN /\ s_original_tx' = [s_original_tx EXCEPT !.status = CONFIRMED]
                       /\ s_running' = FALSE
                       /\ s_thr' = [s_thr EXCEPT ![t] =
                                    [pc |-> "done", check_count |-> check_count]]
                  ELSE /\ s_thr' = [s_thr EXCEPT ![t] =
                                    [pc |-> "polled", check_count |-> check_count]]
                       /\ UNCHANGED <<s_original_tx, s_running>>
    /\ UNCHANGED <<s_rbf_tx, s_target_fee_rate, s_fee_cache, s_fees, s_sequence,
                   engine_vars, observer_vars, sender_vars, utxo_vars>>

\* the first refusal of BitcoinRBFSystem._create_rbf_transaction that applies
sys_create_refusal(target_fee, tx) ==
    IF target_fee >= tx.amount THEN "fee_too_high"
    ELSE IF tx.amount - (target_fee - tx.fee) <= 0 THEN "insufficient_funds"
    ELSE ""

\* _monitor_loop from the fee query: target rate, the comparison with the
\* original fee rate, _create_rbf_transaction (funds checks, creation,
\* signature, broadcast, store of self.rbf_tx, self.running = False) and the
\* break; otherwise the sleep
sys_replace(t) ==
    /\ s_thr[t].pc = "polled"
    /\ \E fresp \in FeeResponses, bcast \in SysBroadcastResults :
        LET current_fastest_fee == sys_get_recommended_fees(fresp)
            target_rate == WholeRate(Or(s_target_fee_rate, current_fastest_fee))
            replace == RateGT(target_rate, original_fee_rate(s_original_tx.fee))
            target_fee == calculate_fee_from_rate(
                              calculate_transaction_size(1, 1), target_rate)
            refusal == sys_create_refusal(target_fee, s_original_tx)
            send_amount == s_original_tx.amount - (target_fee - s_original_tx.fee)
            stored == replace /\ refusal = "" /\ bcast = "success"
        IN /\ bcast = "failure" => replace /\ refusal = ""
           /\ s_fee_cache' = fee_cache_after(fresp, s_fee_cache)
           /\ s_fees' = current_fastest_fee
           /\ s_sequence' = IF replace /\ refusal = ""
                            THEN sys_input_sequence ELSE s_sequence
           /\ s_rbf_tx' = IF stored
                          THEN TransactionInfo(
                                   TxId("cancel", send_amount, target_fee),
                                   "cancel", send_amount, target_fee, BROADCASTED)
                          ELSE s_rbf_tx
           /\ s_running' = IF replace
                           THEN after_loop(s_thr[t].check_count,
                                           IF stored THEN FALSE ELSE s_running)
                           ELSE s_running
           /\ s_thr' = [s_thr EXCEPT ![t].pc = IF replace THEN "done" ELSE "wait"]
    /\ UNCHANGED <<s_original_tx, s_target_fee_rate, s_polled, s_tx_status, engine_vars, observer_vars, sender_vars, utxo_vars>>

\* BitcoinRBFSystem.stop_rbf_operation
sys_stop_rbf_operation ==
    /\ s_running
    /\ s_running' = FALSE
    /\ UNCHANGED <<s_original_tx, s_rbf_tx, s_target_fee_rate, s_thr, s_polled, s_tx_status,
                   s_fee_cache, s_fees, s_sequence, engine_vars, observer_vars, sender_vars, utxo_vars>>

NextSys ==
    \/ sys_start_rbf_operation
    \/ sys_stop_rbf_operation
    \/ \E t \in Threads : sys_poll(t)
    \/ \E t \in Threads : sys_replace(t)

SpecSys == Init /\ [][NextSys]_vars

-----------------------------------------------------------------------------
(* BitcoinRBFEngine with a caller that reads get_status while the monitor
   threads run (RBFCli.start_operation's status loop, RBFCli.status_operation).
   The store of self.rbf_tx and the increment of self.rbf_attempts are separate
   statements of _create_rbf_transaction; the reader's thread may run between
   them, so they are separate steps here. *)

\* _create_rbf_transaction from the answer to sendrawtransaction to the store
\* of self.rbf_tx
store_rbf_tx(t) ==
    /\ thr[t].pc = "broadcast"
    /\ \E bcast \in BroadcastResults :
        LET rbf_txid == IF bcast = "txid"
                        THEN TxId("cancel", thr[t].send_amount, thr[t].target_fee)
                        ELSE <<>>
        IN IF bcast = "exception"
           THEN /\ last' = Observed("", "exception")
                /\ thr' = [thr EXCEPT ![t] = [IdleThread EXCEPT !.pc = "wait"]]
                /\ UNCHANGED rbf_tx
           ELSE /\ rbf_tx' = TransactionInfo(rbf_txid, "cancel", thr[t].send_amount,
                                             thr[t].target_fee, BROADCASTED)
                /\ last' = Observed("", IF bcast = "txid" THEN "broadcast"
                                       ELSE "broadcast_no_id")
                /\ thr' = [thr EXCEPT ![t].pc = "stored"]
    /\ UNCHANGED <<running, rbf_attempts, original_tx, target_fee_rate, fee_cache,
                   polled_txid, system_vars, observer_vars, sender_vars, utxo_vars>>

\* self.rbf_attempts += 1, then the sleep of the loop
increment_rbf_attempts(t) ==
    /\ thr[t].pc = "stored"
    /\ rbf_attempts' = rbf_attempts + 1
    /\ thr' = [thr EXCEPT ![t] = [IdleThread EXCEPT !.pc = "wait"]]
    /\ UNCHANGED <<running, original_tx, rbf_tx, target_fee_rate, fee_cache, last,
                   polled_txid, system_vars, observer_vars, sender_vars, utxo_vars>>

\* One pass of the status loop of RBFCli.start_operation: the loop runs while
\* rbf_engine.running; get_status() returns a dictionary, of which this keeps
\* "running", "rbf_attempts" and the "status" member of "original_transaction"
\* and of "rbf_transaction" ("None" for a transaction that is None)
get_status ==
    /\ running
    /\ cli_status' = <<[running |-> running,
                        rbf_attempts |-> rbf_attempts,
                        original_transaction |-> original_tx.status,
                        rbf_transaction |-> rbf_tx.status]>>
    /\ UNCHANGED <<engine_vars, system_vars, stop_seen, sender_vars, utxo_vars>>

NextStatus ==
    \/ start_rbf_operation
    \/ stop_rbf_operation
    \/ get_status
    \/ \E t \in Threads : monitor_cycle(t)
    \/ \E t \in Threads : store_rbf_tx(t)
    \/ \E t \in Threads : increment_rbf_attempts(t)

SpecStatus == Init /\ [][NextStatus]_vars

-----------------------------------------------------------------------------
(* BitcoinRBFEngine with the stop requests recorded *)

\* stop_rbf_operation, recording in stop_seen the monitor threads that are
\* alive at the call (asleep at the loop head, or inside a cycle)
stop_rbf_operation_recorded ==
    /\ running
    /\ running' = FALSE
    /\ stop_seen' = stop_seen \cup
                        {t \in Threads : thr[t].pc \in {"wait", "broadcast"}}
    /\ UNCHANGED <<rbf_attempts, original_tx, rbf_tx, target_fee_rate,
                   fee_cache, thr, last, polled_txid, system_vars, cli_status,
                   sender_vars, utxo_vars>>

NextStop ==
    \/ start_rbf_operation
    \/ stop_rbf_operation_recorded
    \/ \E t \in Threads : monitor_cycle(t)
    \/ \E t \in Threads : broadcast_rbf_transaction(t)

SpecStop == Init /\ [][NextStop]_vars

-----------------------------------------------------------------------------
(* BitcoinRBFSender (practical_rbf.py): the stand-alone replacement call *)

\* original_amount, and original_fee / new_fee, of a call, in satoshi (the
\* source takes BTC floats; for these values the float test new_amount <= 0
\* agrees with the integer one)
SenderAmounts == {1000, 50000, 100000, 200000, 300000}
SenderFees == {1000, 10000, 50000, 100000, 101000}

\* One call of create_rbf_transaction: the funds check, then create, sign
\* and broadcast through the node.
create_rbf_transaction ==
    /\ \E original_amount \in SenderAmounts, original_fee \in SenderFees,
          new_fee \in SenderFees, sign \in SignResults, bcast \in BroadcastResults :
        LET fee_difference == new_fee - original_fee
            new_amount == original_amount - fee_difference
        IN /\ sender_call' = [original_amount |-> original_amount,
                              original_fee |-> original_fee, new_fee |-> new_fee]
           /\ sender_outcome' =
                  IF new_amount <= 0
                  THEN [res |-> "ValueError", txid |-> <<>>]
                  ELSE IF sign # "complete" \/ bcast = "exception"
                  THEN [res |-> "Exception", txid |-> <<>>]
                  ELSE [res |-> "returned",
                        txid |-> IF bcast = "txid"
                                 THEN TxId("new_destination", new_amount, new_fee)
                                 ELSE <<>>]
    /\ UNCHANGED <<raw_call, raw_outcome, engine_vars, system_vars, observer_vars,
                   utxo_vars>>

NextSender == create_rbf_transaction

SpecSender == Init /\ [][NextSender]_vars

-----------------------------------------------------------------------------
(* Properties *)

\* C1: once the monitoring loop has marked the original record Confirmed, no
\* replacement is built or broadcast afterwards: while the record stays
\* Confirmed, no step stores a replacement
C1_NoReplacementAfterConfirmed ==
    [][(s_original_tx.status = CONFIRMED /\ s_original_tx' = s_original_tx)
       => s_rbf_tx' = s_rbf_tx]_vars

\* C2: every replacement is broadcast at a fee rate strictly greater than that
\* of the record it replaces (all records have the same size, so fee rates
\* compare as fees do); the record replaced is the previous replacement, or
\* the original when there is none
C2_FeeRatesStrictlyIncrease ==
    [][rbf_attempts' = rbf_attempts + 1 =>
       rbf_tx'.fee > (IF rbf_attempts > 0 THEN rbf_tx ELSE original_tx).fee]_vars

\* C3: at most one record has status Broadcast: once a replacement is recorded
\* as Broadcast, the original record no longer is
C3_AtMostOneBroadcast ==
    ~(original_tx.status = BROADCASTED /\ rbf_tx.status = BROADCASTED)

\* C4: the number of replacements performed never exceeds max_rbf_attempts
C4_AttemptsBounded == rbf_attempts <= max_rbf_attempts

\* PolicyConfig.dustThresholdSat, satoshi: the value of the specification's
\* example scenarios
dustThresholdSat == 1000

C6_ConfirmedPollStops ==
    last.tx_status = "{confirmed: true}" =>
        (original_tx.status = CONFIRMED /\ ~running)

\* C7: a poll cycle whose status query fails issues no broadcast
C7_FailedQueryNoBroadcast ==
    ~(last.tx_status = "error" /\ last.res = "to_broadcast")

\* C8: a rejected broadcast (no ledger id returned) stores no record and does
\* not increment the attempt counter
C8_RejectedBroadcastNotRecorded ==
    [][last'.res = "broadcast_no_id"
       => (rbf_tx' = rbf_tx /\ rbf_attempts' = rbf_attempts)]_vars

\* C9: after the signer reports a replacement as not complete, monitoring has
\* stopped
C9_SignFailureStops == last.res = "sign_failed" => ~running

\* C10: after a justified replacement is refused because the attempts are
\* used up, monitoring has stopped
C10_ExhaustedStops == last.res = "max_attempts" => ~running

\* C11: when a replacement is refused for insufficient funds (the target fee
\* reaches the amount, or the computed amount is not positive), monitoring
\* has stopped
C11_InsufficientFundsStops ==
    last.res \in {"fee_too_high", "insufficient_funds"} => ~running

\* C12: at most one monitor thread is alive at any instant
C12_SingleMonitorThread ==
    Cardinality({t \in Threads : thr[t].pc \in {"wait", "broadcast"}}) <= 1

\* C13: get_status returns the values the engine had between two replacement
\* steps: with a single operation started, a snapshot reports a replacement
\* record exactly when it reports at least one attempt
C13_StatusIsSnapshot ==
    (cli_status # <<>> /\ Cardinality({t \in Threads : thr[t].pc # "idle"}) <= 1) =>
        (cli_status[1].rbf_attempts = 0 <=> cli_status[1].rbf_transaction = None.status)

\* C14: a monitor thread that was alive when a stop was requested completes at
\* most the cycle in progress: from the loop head it begins no further cycle,
\* so it never again goes from the loop head to building a replacement
C14_NoCycleAfterStop ==
    [][\A t \in stop_seen : thr[t].pc = "wait" => thr'[t].pc # "broadcast"]_vars

\* C15: a stop (cancel) request ends in Cancelled only through a replacement
\* broadcast to the cancellation address, or else in Failed: once a stop was
\* requested and every monitor thread has left its loop, a replacement with a
\* ledger id is recorded or a record is marked failed
C15_CancelReplaces ==
    (/\ stop_seen # {}
     /\ ~running
     /\ \A t \in Threads : thr[t].pc \in {"idle", "done"})
    => \/ rbf_tx # None /\ rbf_tx.txid # <<>>
       \/ original_tx.status = FAILED
       \/ rbf_tx.status = FAILED

C17_NotFoundKeepsMonitoring ==
    [][\A t \in Threads :
        (s_thr[t].pc = "wait" /\ s_thr'[t].pc # "wait" /\ s_polled' = "404") =>
            /\ s_thr'[t].pc = "polled"
            /\ s_original_tx' = s_original_tx
            /\ s_rbf_tx' = s_rbf_tx
            /\ s_running' = s_running]_vars

C17_Witness ==
    /\ s_polled = "404"
    /\ s_running
    /\ s_original_tx.status = BROADCASTED
    /\ \E t \in Threads : s_thr[t].pc = "polled"

\* C18: a monitor thread is alive only while the chain's first record holds
\* the ledger id its broadcast returned.
C18_MonitoringNeedsLedgerId ==
    (\E t \in Threads : thr[t].pc \in {"wait", "broadcast"}) =>
        original_tx # None /\ original_tx.txid # <<>>

\* C19: a monitor that is still running ends at its status poll only because
\* the transaction was confirmed, never because of how many polls it has made.
C19_NoPollCeiling ==
    [][\A t \in Threads :
        (s_running /\ s_thr[t].pc = "wait" /\ s_thr'[t].pc = "done") =>
            s_original_tx'.status = CONFIRMED]_vars

\* C20: a create_rbf_transaction call whose new fee is not above the
\* original fee is rejected: it returns no replacement.
C20_LowerFeeRejected ==
    (sender_outcome.res # "" /\ sender_call.new_fee <= sender_call.original_fee) =>
        sender_outcome.res # "returned"

\* C21: once every monitor thread of BitcoinRBFSystem that was started has
\* left its loop, the running flag is False.
C21_ExitedMeansStopped ==
    ((\E t \in Threads : s_thr[t].pc = "done") /\
     (\A t \in Threads : s_thr[t].pc \in {"idle", "done"})) => ~s_running

\* C22: once stop_rbf_operation has returned (and until the next start), no
\* step records a replacement or changes rbf_attempts.
C22_NoMutationAfterStop ==
    [][(stop_seen # {} /\ ~running /\ ~running') =>
           (rbf_tx' = rbf_tx /\ rbf_attempts' = rbf_attempts)]_vars

\* C23: a poll cycle decides to replace only when its buffered, capped target
\* rate is strictly above the fee rate of the most recent record (the latest
\* replacement, or the original when there is none); all records have the
\* same size, so rates compare as fees do.
C23_EqualRatesNoReplacement ==
    [][\A t \in Threads :
        (thr[t].pc = "wait" /\ thr'[t].pc = "broadcast") =>
            thr'[t].target_fee >
                (IF rbf_attempts > 0 THEN rbf_tx ELSE original_tx).fee]_vars

\* C24: no replacement of BitcoinRBFSystem is recorded at a fee rate above
\* the maximum fee-rate cap (max_fee_rate, the only cap the repository
\* configures); all records have the same size, so the bound is on the fee.
C24_RateCapped ==
    s_rbf_tx # None =>
        s_rbf_tx.fee <= calculate_fee_from_rate(calculate_transaction_size(1, 1),
                                                WholeRate(max_fee_rate))

\* C25: once a replacement has been recorded with its ledger id, every status
\* query of a poll cycle asks about the replacement's id.
C25_PollsActiveRecord ==
    [][((\E t \in Threads : thr[t].pc = "wait") /\ running
        /\ rbf_attempts > 0 /\ rbf_tx.txid # <<>>
        /\ last'.tx_status # "" /\ last' # last) =>
           polled_txid' = rbf_tx.txid]_vars

\* C26: the step that records a successfully broadcast replacement leaves
\* BitcoinRBFSystem monitoring: the running flag stays set and the thread
\* goes back to the head of its loop.
C26_ReplacementNotTerminal ==
    [][\A t \in Threads :
        (s_thr[t].pc = "polled" /\ s_thr'[t].pc # "polled" /\ s_running
         /\ s_rbf_tx'.txid # <<>> /\ s_rbf_tx' # s_rbf_tx) =>
            (s_running' /\ s_thr'[t].pc = "wait")]_vars

C28_AmountTracksFeeIncrease ==
    [][rbf_attempts' = rbf_attempts + 1 =>
        LET prev == IF rbf_attempts > 0 THEN rbf_tx ELSE original_tx
        IN rbf_tx'.amount = prev.amount - (rbf_tx'.fee - prev.fee)]_vars

\* C29: in a poll cycle made with the attempt limit reached, the rate
\* comparison comes first: the outcome is "no_replace" when the buffered,
\* capped target rate is not above the rate of the most recent record, and
\* "max_attempts" otherwise, whatever the funds are.
C29_RateThenAttemptsThenFunds ==
    [][\A t \in Threads :
        (thr[t].pc = "wait" /\ running /\ running' /\ last'.tx_status # ""
         /\ (last' # last \/ thr'[t] # thr[t])
         /\ rbf_attempts >= max_rbf_attempts) =>
            LET rate == target_rate_with_buffer(target_fee_rate)
                recent == IF rbf_attempts > 0 THEN rbf_tx ELSE original_tx
            IN IF ~RateGT(rate, original_fee_rate(recent.fee))
               THEN last'.res = "no_replace"
               ELSE last'.res = "max_attempts"]_vars

\* C30: once a fee query of rbf_main's MempoolMonitor has succeeded, every
\* fee query returns the cached estimate: the fresh one it has just cached,
\* or on failure the last one cached; never the built-in defaults.
C30_FailedQueryReturnsCache ==
    s_fee_cache # 0 => s_fees = s_fee_cache

\* C31: the status query of rbf_main's MempoolMonitor reports each oracle
\* outcome as its own result: 200 with status.confirmed as "confirmed", any
\* other 200 as "mempool", 404 as "not_found", and every other failure
\* (another status code, a timeout, a connection error) as none of these.
C31_StatusResultsDistinct ==
    /\ s_polled = "200_confirmed" => s_tx_status = "confirmed"
    /\ s_polled = "200_unconfirmed" => s_tx_status = "mempool"
    /\ s_polled = "404" => s_tx_status = "not_found"
    /\ s_polled \in {"500", "exception"} =>
           s_tx_status \notin {"confirmed", "mempool", "not_found"}

\* C32: a replacement record stored for the current operation is never
\* overwritten: its id, amount and fee stay what they were when it was stored.
C32_RecordsKeepIdentity ==
    [][(rbf_attempts > 0 /\ rbf_attempts' >= rbf_attempts) =>
           /\ rbf_tx'.txid = rbf_tx.txid
           /\ rbf_tx'.amount = rbf_tx.amount
           /\ rbf_tx'.fee = rbf_tx.fee]_vars

\* ---------------------------------------------------------------------------
\* The outpoint of the operation: start_rbf_operation with the wallet's list of
\* unspent outputs.  self.utxo is assigned before the original transaction is
\* signed and broadcast, so a start that raises after that keeps the new value.
start_rbf_operation_utxo ==
    \E args \in StartInputs, result \in StartResults, listed \in Utxos \cup {NoUtxo} :
        /\ listed = NoUtxo => result = "raised"
        /\ start_rbf_operation_body(args, result)
        /\ utxo' = IF listed = NoUtxo THEN utxo ELSE listed
        /\ original_outpoint' = IF result # "raised" THEN listed ELSE original_outpoint

NextUtxo ==
    \/ start_rbf_operation_utxo
    \/ stop_rbf_operation
    \/ \E t \in Threads : monitor_cycle(t)
    \/ \E t \in Threads : broadcast_rbf_transaction(t)

SpecUtxo == Init /\ [][NextUtxo]_vars

\* C33: a cycle that builds a replacement builds it on self.utxo, and that is
\* the outpoint the original transaction spends: the selected outpoint is the
\* same for the original and for every replacement.
C33_SameOutpoint ==
    [][\A t \in Threads :
        (thr[t].pc = "wait" /\ thr'[t].pc = "broadcast") =>
            utxo = original_outpoint]_vars

\* C34: whenever at most one monitor thread is alive and none is in the middle
\* of a replacement, the engine holds a replacement record exactly when
\* rbf_attempts is greater than 0 (get_status reports "rbf_transaction" from
\* self.rbf_tx and "rbf_attempts" from self.rbf_attempts)
C34_AttemptsCountRecords ==
    (/\ Cardinality({t \in Threads : thr[t].pc \notin {"idle", "done"}}) <= 1
     /\ \A t \in Threads : thr[t].pc \in {"idle", "wait", "done"}) =>
        (rbf_attempts > 0 <=> rbf_tx # None)

\* C35: every transaction built for an RBF operation carries the replace
\* signal: once BitcoinRBFSystem has built a transaction (the original or a
\* replacement), the sequence of its input is below 0xfffffffe
C35_ReplaceSignalSet ==
    s_sequence # <<>> => (s_sequence[1] < 65535 \/ s_sequence[2] < 65534)

\* ---------------------------------------------------------------------------
\* create_raw_transaction of rbf_transaction.py and advanced_rbf.py

\* amount_btc and fee_btc of a call, in units of 0.1 satoshi
RawAmounts == {0, 10000, 10009, 20000, 50000, 100000, 100005}
RawFees == {0, 1000, 10000, 10009, 20005, 100000}

\* int(amount_btc * COIN): the whole satoshis of an amount given in units of
\* 0.1 satoshi (int truncates)
int_times_COIN(btc) == btc \div 10

\* RBFSender.create_raw_transaction of rbf_transaction.py: the fee is checked
\* and the output carries amount_sat - fee_sat
RBFSender_create_raw_transaction ==
    /\ \E amount_btc \in RawAmounts, fee_btc \in RawFees :
        LET amount_sat == int_times_COIN(amount_btc)
            fee_sat == int_times_COIN(fee_btc)
            send_amount_sat == amount_sat - fee_sat
        IN /\ raw_call' = [fn |-> "rbf_transaction.RBFSender", amount_btc |-> amount_btc,
                           fee_btc |-> fee_btc]
           /\ raw_outcome' = IF fee_sat >= amount_sat
                             THEN [res |-> "ValueError", nValue |-> 0]
                             ELSE [res |-> "returned", nValue |-> send_amount_sat]
    /\ UNCHANGED <<sender_call, sender_outcome, engine_vars, system_vars,
                   observer_vars, utxo_vars>>

\* RBFSender.create_raw_transaction of advanced_rbf.py: the same inside a try
\* block that re-raises every error as Exception
advanced_RBFSender_create_raw_transaction ==
    /\ \E amount_btc \in RawAmounts, fee_btc \in RawFees :
        LET amount_sat == int_times_COIN(amount_btc)
            fee_sat == int_times_COIN(fee_btc)
            send_amount_sat == amount_sat - fee_sat
        IN /\ raw_call' = [fn |-> "advanced_rbf.RBFSender", amount_btc |-> amount_btc,
                           fee_btc |-> fee_btc]
           /\ raw_outcome' = IF fee_sat >= amount_sat
                             THEN [res |-> "Exception", nValue |-> 0]
                             ELSE [res |-> "returned", nValue |-> send_amount_sat]
    /\ UNCHANGED <<sender_call, sender_outcome, engine_vars, system_vars,
                   observer_vars, utxo_vars>>

\* The module-level create_raw_transaction of rbf_transaction.py: change_sat
\* is computed and not used, the output carries amount_sat
create_raw_transaction ==
    /\ \E amount_btc \in RawAmounts, fee_btc \in RawFees :
        LET amount_sat == int_times_COIN(amount_btc)
        IN /\ raw_call' = [fn |-> "rbf_transaction", amount_btc |-> amount_btc,
                           fee_btc |-> fee_btc]
           /\ raw_outcome' = [res |-> "returned", nValue |-> amount_sat]
    /\ UNCHANGED <<sender_call, sender_outcome, engine_vars, system_vars,
                   observer_vars, utxo_vars>>

NextRaw ==
    \/ RBFSender_create_raw_transaction
    \/ advanced_RBFSender_create_raw_transaction
    \/ create_raw_transaction

SpecRaw == Init /\ [][NextRaw]_vars

\* C36: a create_raw_transaction call whose fee (in satoshis) is at least the
\* amount raises an error, and any other call returns a transaction whose
\* single output carries the amount minus the fee
C36_FeeCheckedAndDeducted ==
    raw_outcome.res # "" =>
        LET amount_sat == int_times_COIN(raw_call.amount_btc)
            fee_sat == int_times_COIN(raw_call.fee_btc)
        IN IF fee_sat >= amount_sat
           THEN raw_outcome.res \in {"ValueError", "Exception"}
           ELSE /\ raw_outcome.res = "returned"
                /\ raw_outcome.nValue = amount_sat - fee_sat

====
